---- MODULE Spec2Model ----
(***************************************************************************)
(* A model of the NeSPReSO client library (src/src/nespreso_client):       *)
(* input normalisation (utils.py), the profile transport, its synchronous  *)
(* wrapper, the batch orchestrator and the merge step (profile.py), and    *)
(* the grid query (grid.py).                                               *)
(*                                                                         *)
(* One behaviour is one call of an operation of the library by a host      *)
(* program.  The host either has no event loop in the calling thread       *)
(* (host = "sync") or makes the call from a task that an asyncio event     *)
(* loop is running (host = "loop").  The remote services, the file system  *)
(* and the merge library are the environment: their outcomes are chosen    *)
(* nondeterministically.                                                   *)
(***************************************************************************)
EXTENDS Integers, Sequences, FiniteSets, TLC

(***************************************************************************)
(* Bounds of the model.                                                    *)
(***************************************************************************)
\* Largest number of points of a flat latitude input.
MaxPoints == 4
\* Largest batch_size tried (0 is tried too).
MaxBatchSize == 2
\* Largest number of files handed to merge_netcdf_files directly.
MaxMergeFiles == 2

(***************************************************************************)
(* Strings and formatting.                                                 *)
(***************************************************************************)
\* str.startswith
StartsWith(s, p) == Len(s) >= Len(p) /\ SubSeq(s, 1, Len(p)) = p

\* str.endswith
EndsWith(s, p) == Len(s) >= Len(p) /\ SubSeq(s, Len(s) - Len(p) + 1, Len(s)) = p

Abs(n) == IF n < 0 THEN -n ELSE n

\* Decimal digits of n >= 0, zero-padded on the left to at least w digits
\* (the format specs 03d, 02d, 04d).
RECURSIVE ZeroPad(_, _)
ZeroPad(n, w) ==
    IF w <= 1 \/ n >= 10
    THEN (IF n >= 10 THEN ZeroPad(n \div 10, w - 1) ELSE "") \o ToString(n % 10)
    ELSE "0" \o ZeroPad(n, w - 1)

\* f"{x:.2f}" of the number h / 100.
Format2f(h) ==
    (IF h < 0 THEN "-" ELSE "") \o ToString(Abs(h) \div 100) \o "." \o ZeroPad(Abs(h) % 100, 2)

\* f"{x:.3f}" of the number t / 1000.
Format3f(t) ==
    (IF t < 0 THEN "-" ELSE "") \o ToString(Abs(t) \div 1000) \o "." \o ZeroPad(Abs(t) % 1000, 3)

RECURSIVE JoinStrings(_, _)
JoinStrings(seq, sep) ==
    IF seq = <<>> THEN ""
    ELSE IF Len(seq) = 1 THEN seq[1]
    ELSE seq[1] \o sep \o JoinStrings(Tail(seq), sep)

RECURSIVE Flatten(_)
Flatten(rows) == IF rows = <<>> THEN <<>> ELSE rows[1] \o Flatten(Tail(rows))

(***************************************************************************)
(* Python values.  A scalar handed to the library is an atom: kind is its  *)
(* Python type, v its numeric value (when it has one), s its text (when it *)
(* is a str), num whether float(.) accepts it.                             *)
(***************************************************************************)
PyFloat(v) == [kind |-> "float", v |-> v, s |-> "", num |-> TRUE]
PyInt(v) == [kind |-> "int", v |-> v, s |-> "", num |-> TRUE]
\* A str that float(.) parses to the number v, e.g. "10".
PyNumStr(s, v) == [kind |-> "str", v |-> v, s |-> s, num |-> TRUE]
\* A str that float(.) rejects.
PyText(s) == [kind |-> "str", v |-> 0, s |-> s, num |-> FALSE]
PyNaN == [kind |-> "nan", v |-> 0, s |-> "nan", num |-> TRUE]
PyNone == [kind |-> "None", v |-> 0, s |-> "None", num |-> FALSE]

\* What an operation hands back: None, a str, a float, a list, or an exception.
RetNone == [t |-> "None"]
RetStr(s) == [t |-> "str", s |-> s]
RetFloat(v) == [t |-> "float", v |-> v]
RetList(items) == [t |-> "list", items |-> items]
Raise(exc) == [t |-> "raise", exc |-> exc]

\* Python truthiness of a returned value ("if result:").
Truthy(r) ==
    CASE r.t = "None" -> FALSE
      [] r.t = "str" -> r.s # ""
      [] r.t = "list" -> r.items # <<>>
      [] OTHER -> TRUE

(***************************************************************************)
(* utils.py: array-likes.  np.asarray of a scalar is a 0-d array, of a     *)
(* flat sequence a 1-d array, of a sequence of equal-length rows a 2-d     *)
(* array.  rows holds the data row by row (one row when ndim < 2); every   *)
(* array of the model is homogeneous, so its dtype is that of its atoms.   *)
(***************************************************************************)
Scalar(a) == [ndim |-> 0, rows |-> <<<<a>>>>]
Flat(seq) == [ndim |-> 1, rows |-> <<seq>>]
Nested(rows) == [ndim |-> 2, rows |-> rows]

\* _as_numpy_array: np.asarray keeps shape and data.
AsNumpyArray(data) == data

\* arr.dtype.kind of a homogeneous array; an empty array is float64.
DtypeKind(arr) ==
    LET flat == Flatten(arr.rows) IN
    IF flat = <<>> THEN "f"
    ELSE CASE flat[1].kind = "float" -> "f"
           [] flat[1].kind = "nan" -> "f"
           [] flat[1].kind = "int" -> "i"
           [] flat[1].kind = "str" -> "U"
           [] OTHER -> "O"

\* _to_float_list: ravel when ndim > 1, astype(float), tolist().  astype
\* raises ValueError on a value that is not a number; tolist() of a 0-d
\* array is a bare float, not a list.
ToFloatList(data) ==
    LET arr == AsNumpyArray(data)
        flat == Flatten(arr.rows)
    IN  IF \E i \in 1..Len(flat) : ~flat[i].num
        THEN Raise("ValueError")
        ELSE IF arr.ndim = 0
             THEN RetFloat(flat[1].v)
             ELSE RetList([i \in 1..Len(flat) |-> flat[i].v])

(***************************************************************************)
(* Calendar arithmetic of datetime: a date is its number of days since     *)
(* 0001-01-01 (datetime.toordinal() - 1) or its year, month and day.       *)
(***************************************************************************)
IsLeap(y) == y % 4 = 0 /\ (y % 100 # 0 \/ y % 400 = 0)

DaysInMonth(y, m) ==
    CASE m \in {1, 3, 5, 7, 8, 10, 12} -> 31
      [] m \in {4, 6, 9, 11} -> 30
      [] OTHER -> IF IsLeap(y) THEN 29 ELSE 28

\* datetime.max is 9999-12-31: this many days after 0001-01-01.
MaxDateOffset == 3652058

\* Year, month, day of the date n days after 0001-01-01 (0 <= n).
YmdOfOffset(n) ==
    LET z == n + 306                       \* days since 0000-03-01
        era == z \div 146097
        doe == z % 146097
        yoe == (doe - doe \div 1460 + doe \div 36524 - doe \div 146096) \div 365
        doy == doe - (365 * yoe + yoe \div 4 - yoe \div 100)
        mp == (5 * doy + 2) \div 153
        d == doy - (153 * mp + 2) \div 5 + 1
        m == IF mp < 10 THEN mp + 3 ELSE mp - 9
        y == yoe + era * 400 + (IF m <= 2 THEN 1 ELSE 0)
    IN  [y |-> y, m |-> m, d |-> d]

\* strftime("%Y-%m-%d").  %m and %d are two digits; %Y is what the C library
\* prints for the year, which glibc does not pad.
Strftime(ymd) ==
    ToString(ymd.y) \o "-" \o ZeroPad(ymd.m, 2) \o "-" \o ZeroPad(ymd.d, 2)

IsDigit(c) == c \in {"0", "1", "2", "3", "4", "5", "6", "7", "8", "9"}

DigitVal(c) ==
    CASE c = "0" -> 0 [] c = "1" -> 1 [] c = "2" -> 2 [] c = "3" -> 3
      [] c = "4" -> 4 [] c = "5" -> 5 [] c = "6" -> 6 [] c = "7" -> 7
      [] c = "8" -> 8 [] OTHER -> 9

CharAt(s, i) == SubSeq(s, i, i)

AllDigits(s) == \A i \in 1..Len(s) : IsDigit(CharAt(s, i))

RECURSIVE DecimalVal(_)
DecimalVal(s) ==
    IF Len(s) = 0 THEN 0
    ELSE 10 * DecimalVal(SubSeq(s, 1, Len(s) - 1)) + DigitVal(CharAt(s, Len(s)))

\* datetime.strptime(s, "%Y-%m-%d") succeeds: four digits of a year >= 1, a
\* month of one or two digits in 1..12, a day of one or two digits (or a
\* space and a digit) that the month has, and nothing after it.
StrptimeYmdOk(s) ==
    /\ Len(s) >= 8
    /\ AllDigits(SubSeq(s, 1, 4))
    /\ CharAt(s, 5) = "-"
    /\ \E k \in {7, 8} :
          /\ k < Len(s)
          /\ CharAt(s, k) = "-"
          /\ LET ys == SubSeq(s, 1, 4)
                 ms == SubSeq(s, 6, k - 1)
                 ds == SubSeq(s, k + 1, Len(s))
                 dd == IF Len(ds) = 2 /\ CharAt(ds, 1) = " " THEN SubSeq(ds, 2, 2) ELSE ds
             IN  /\ AllDigits(ms)
                 /\ Len(ds) \in {1, 2}
                 /\ AllDigits(dd)
                 /\ DecimalVal(ys) >= 1
                 /\ DecimalVal(ms) \in 1..12
                 /\ DecimalVal(dd) >= 1
                 /\ DecimalVal(dd) <= DaysInMonth(DecimalVal(ys), DecimalVal(ms))

\* A Python datetime at midnight, n days after 0001-01-01.
PyDatetime(n) == [kind |-> "datetime", v |-> n, s |-> "", num |-> FALSE]

\* str(x) of an atom.
PyStr(a) ==
    CASE a.kind = "float" -> ToString(a.v) \o ".0"
      [] a.kind = "int" -> ToString(a.v)
      [] a.kind = "datetime" -> Strftime(YmdOfOffset(a.v)) \o " 00:00:00"
      [] OTHER -> a.s

\* repr(x) of an atom, as str() of a list shows its items.
PyRepr(a) ==
    CASE a.kind = "str" -> "'" \o a.s \o "'"
      [] a.kind = "datetime" ->
            LET ymd == YmdOfOffset(a.v) IN
            "datetime.datetime(" \o ToString(ymd.y) \o ", " \o ToString(ymd.m)
                \o ", " \o ToString(ymd.d) \o ", 0, 0)"
      [] OTHER -> PyStr(a)

\* str(row) of a list.
PyStrList(row) == "[" \o JoinStrings([i \in 1..Len(row) |-> PyRepr(row[i])], ", ") \o "]"

\* _datenum_to_iso_string of one number: 0001-01-01 plus (value - 366) days,
\* and str(value) when datetime cannot hold that date (OverflowError) or the
\* value is not a finite number.
DatenumToIsoString(a) ==
    IF a.kind \in {"float", "int"} /\ a.v - 366 >= 0 /\ a.v - 366 <= MaxDateOffset
    THEN Strftime(YmdOfOffset(a.v - 366))
    ELSE PyStr(a)

\* convert_date_to_iso_strings.  A scalar is wrapped into a one-element list;
\* a list, tuple or array is taken as it is.  arr.tolist() of a 2-d array is
\* a list of rows, and a row is neither a number nor a datetime: float(row)
\* raises inside _datenum_to_iso_string, which falls back to str(row).
ConvertDateToIsoStrings(date) ==
    LET arr == IF date.ndim = 0 THEN AsNumpyArray(Flat(date.rows[1])) ELSE AsNumpyArray(date)
        items == IF arr.ndim = 1 THEN arr.rows[1] ELSE <<>>
    IN  IF arr.ndim > 1
        THEN RetList([i \in 1..Len(arr.rows) |-> PyStrList(arr.rows[i])])
        ELSE IF DtypeKind(arr) \in {"f", "i"}
             THEN RetList([i \in 1..Len(items) |-> DatenumToIsoString(items[i])])
             ELSE RetList([i \in 1..Len(items) |->
                     IF items[i].kind \in {"float", "int"} THEN DatenumToIsoString(items[i])
                     ELSE IF items[i].kind = "datetime" THEN Strftime(YmdOfOffset(items[i].v))
                     ELSE PyStr(items[i])])

\* preprocess_inputs: the three conversions, in order; the first exception
\* propagates.
PreprocessInputs(lat, lon, date) ==
    LET lat_out == ToFloatList(lat)
        lon_out == ToFloatList(lon)
        date_out == ConvertDateToIsoStrings(date)
    IN  IF lat_out.t = "raise" THEN lat_out
        ELSE IF lon_out.t = "raise" THEN lon_out
        ELSE [t |-> "tuple", lat |-> lat_out, lon |-> lon_out, date |-> date_out]

(***************************************************************************)
(* State.                                                                  *)
(***************************************************************************)
VARIABLES
    host,             \* "sync": no event loop runs in the calling thread;
                      \* "loop": the call is made by a task of a running loop
    warnings_error,   \* the host turned warnings into exceptions (-W error)
    loop_thread,      \* what the loop's thread runs: "none", "idle", "caller"
    loop_ready,       \* the loop's queue of ready tasks
    future,           \* the future of run_coroutine_threadsafe
    call,             \* the operation the host called, with its arguments
    result,           \* what the call handed back to the host
    files,            \* the files written: a set of [path, size]
    http_log,         \* the HTTP requests issued, in order
    gp_pc,            \* get_predictions: position
    gp_caller,        \* get_predictions: "host" or "batch"
    gp_args,          \* get_predictions: arguments
    gp_result,        \* get_predictions: returned value or exception
    gp_log,           \* the calls of get_predictions, in order
    b_pc,             \* get_predictions_batch: position
    b_points,         \* get_predictions_batch: lat, lon, date after preprocessing
    start_index,      \* get_predictions_batch: the loop variable
    successful_files, \* get_predictions_batch: successful_files
    batch_log,        \* get_predictions_batch: the outcome printed per batch
    m_pc,             \* merge_netcdf_files: position
    m_caller,         \* merge_netcdf_files: "host" or "batch"
    m_args,           \* merge_netcdf_files: file_list, output_filename
    datasets,         \* merge_netcdf_files: the handles in datasets, each
                      \* "open" or "closed"
    open_log,         \* the files xr.open_dataset was called on, in order
    m_log,            \* the calls of merge_netcdf_files, in order
    m_result          \* merge_netcdf_files: the value it returns

vars == <<host, warnings_error, loop_thread, loop_ready, future, call, result, files,
          http_log, gp_pc, gp_caller, gp_args, gp_result, gp_log, b_pc, b_points,
          start_index, successful_files, batch_log, m_pc, m_caller, m_args, datasets,
          open_log, m_log, m_result>>

loop_vars == <<loop_thread, loop_ready, future>>
gp_vars == <<gp_pc, gp_caller, gp_args, gp_result, gp_log>>
b_vars == <<b_pc, b_points, start_index, successful_files, batch_log>>
m_vars == <<m_pc, m_caller, m_args, datasets, open_log, m_log, m_result>>

NoCall == [op |-> "none"]
NoResult == [t |-> "none"]
NoFuture == [state |-> "none"]

Init ==
    /\ host \in {"sync", "loop"}
    /\ warnings_error \in BOOLEAN
    /\ loop_thread = IF host = "loop" THEN "idle" ELSE "none"
    /\ loop_ready = IF host = "loop" THEN <<"other", "caller", "other">> ELSE <<>>
    /\ future = NoFuture
    /\ call = NoCall
    /\ result = NoResult
    /\ files = {}
    /\ http_log = <<>>
    /\ gp_pc = "idle"
    /\ gp_caller = "none"
    /\ gp_args = NoCall
    /\ gp_result = NoResult
    /\ gp_log = <<>>
    /\ b_pc = "idle"
    /\ b_points = NoResult
    /\ start_index = 0
    /\ successful_files = <<>>
    /\ batch_log = <<>>
    /\ m_pc = "idle"
    /\ m_caller = "none"
    /\ m_args = NoCall
    /\ datasets = <<>>
    /\ open_log = <<>>
    /\ m_log = <<>>
    /\ m_result = NoResult

\* The host's code is running and has not called the library yet.
HostMayCall == call = NoCall /\ (host = "sync" \/ loop_thread = "caller")

\* open(path, "wb") and write(content): the file holds size bytes afterwards.
WriteFile(fs, path, size) == {f \in fs : f.path # path} \cup {[path |-> path, size |-> size]}

\* What a failing write leaves: nothing new when open() fails, an empty or
\* shorter file when write() fails.
AfterWrite(fs, path, size, write) ==
    CASE write = "ok" -> WriteFile(fs, path, size)
      [] write = "write_fails" -> WriteFile(fs, path, 0)
      [] OTHER -> fs

(***************************************************************************)
(* profile.py: the transport.                                              *)
(***************************************************************************)
DEFAULT_API == "http://localhost:5000/v1/profile"

\* What the profile service and the file system may do with one request.
FetchEnvs ==
    {[exc |-> TRUE, status |-> 0, has_ct |-> FALSE, ct |-> "", size |-> 0, write |-> "ok"]}
    \cup [exc : {FALSE}, status : {301, 404}, has_ct : {TRUE},
          ct : {"application/x-netcdf", "application/json"}, size : {2}, write : {"ok"}]
    \cup [exc : {FALSE}, status : {200}, has_ct : {TRUE},
          ct : {"application/x-netcdf", "application/x-netcdf; charset=binary",
                "application/json", "text/x-netcdf"},
          size : {0, 2}, write : {"ok", "open_fails", "write_fails"}]
    \cup [exc : {FALSE}, status : {200}, has_ct : {FALSE}, ct : {""}, size : {2},
          write : {"ok"}]

\* response.headers.get("Content-Type", "")
ContentType(env) == IF env.has_ct THEN env.ct ELSE ""

\* Line 59: the declared content type is that of a NetCDF file.
IsNetcdfContentType_Suffix(ct) == EndsWith(ct, "x-netcdf")

IsNetcdfContentType(ct) == StartsWith(ct, "application/x-netcdf")

\* fetch_predictions.  An api_url that ends with /predict draws a warning,
\* which is an exception when the host made warnings errors.  Gives the value returned (or the exception raised),
\* whether the POST was issued, and the files afterwards.
FetchPredictions(lat, lon, date, filename, api_url_arg, fs, env) ==
    LET api_url == IF api_url_arg.kind = "None" \/ (api_url_arg.kind = "str" /\ api_url_arg.s = "")
                   THEN PyText(DEFAULT_API) ELSE api_url_arg
        request == [url |-> api_url.s, data |-> [lat |-> lat, lon |-> lon, date |-> date]]
        unsent == [posted |-> <<>>, files |-> fs]
        sent == [posted |-> <<request>>, files |-> fs]
    IN  IF EndsWith(api_url.s, "/predict") /\ warnings_error
        THEN [ret |-> Raise("UserWarning")] @@ unsent
        ELSE IF env.exc
        THEN [ret |-> RetNone] @@ sent
        ELSE IF env.status # 200
        THEN [ret |-> RetNone] @@ sent
        ELSE IF ~IsNetcdfContentType(ContentType(env))
        THEN [ret |-> RetNone] @@ sent
        ELSE IF env.write # "ok"
        THEN [ret |-> RetNone, posted |-> <<request>>,
              files |-> AfterWrite(fs, filename, env.size, env.write)]
        ELSE [ret |-> RetStr(filename), posted |-> <<request>>,
              files |-> AfterWrite(fs, filename, env.size, env.write)]

(***************************************************************************)
(* grid.py: the grid query.  A bbox value is in hundredths of a degree, a  *)
(* resolution in thousandths, so that the two-decimal and three-decimal    *)
(* formats of the file name are exact.                                     *)
(***************************************************************************)
GRID_OUTPUT_DIR == "uses/grid"

\* 180.0 and 90.0 degrees, in hundredths.
LonLimit == 18000
LatLimit == 9000

GridError(msg) ==
    [t |-> "dict", keys |-> {"success", "error"}, success |-> FALSE, error |-> msg,
     filename |-> "", size_bytes |-> 0, status_code |-> 0]

\* x <= y and x < y of two floats: false when either is NaN.
FloatLe(a1, a2) == a1.kind # "nan" /\ a2.kind # "nan" /\ a1.v <= a2.v
FloatLt(a1, a2) == a1.kind # "nan" /\ a2.kind # "nan" /\ a1.v < a2.v

\* Line 50.
BboxInRange(lon_min, lat_min, lon_max, lat_max) ==
    /\ FloatLe(PyFloat(-LonLimit), lon_min) /\ FloatLe(lon_min, PyFloat(LonLimit))
    /\ FloatLe(PyFloat(-LonLimit), lon_max) /\ FloatLe(lon_max, PyFloat(LonLimit))
    /\ FloatLe(PyFloat(-LatLimit), lat_min) /\ FloatLe(lat_min, PyFloat(LatLimit))
    /\ FloatLe(PyFloat(-LatLimit), lat_max) /\ FloatLe(lat_max, PyFloat(LatLimit))

\* Line 52.
BboxOrdered_AllowsEqual(lon_min, lat_min, lon_max, lat_max) ==
    FloatLe(lon_min, lon_max) /\ FloatLe(lat_min, lat_max)

BboxOrdered(lon_min, lat_min, lon_max, lat_max) ==
    FloatLt(lon_min, lon_max) /\ FloatLt(lat_min, lat_max)

\* The validation of query_grid: "" when every check passes, else the message
\* of the first check that fails.
GridValidationError(date_str, bbox, resolution) ==
    LET b == bbox.items
    IN  IF ~(date_str.kind = "str" /\ StrptimeYmdOk(date_str.s))
        THEN "Invalid date. Use YYYY-MM-DD."
        ELSE IF bbox.t # "None" /\ ~(bbox.t \in {"list", "tuple"} /\ Len(b) = 4)
        THEN "Invalid bbox. Use [lon_min, lat_min, lon_max, lat_max]."
        ELSE IF bbox.t # "None" /\ \E i \in 1..4 : ~b[i].num
        THEN "Invalid bbox values. Must be numeric [lon_min, lat_min, lon_max, lat_max]."
        ELSE IF bbox.t # "None" /\ ~BboxInRange(b[1], b[2], b[3], b[4])
        THEN "BBOX out of range. Lon in [-180,180], Lat in [-90,90]."
        ELSE IF bbox.t # "None" /\ ~BboxOrdered(b[1], b[2], b[3], b[4])
        THEN "BBOX order invalid. Require lon_min < lon_max and lat_min < lat_max."
        ELSE IF resolution.kind # "None" /\ ~resolution.num
        THEN "Resolution must be a positive number (degrees)."
        ELSE IF resolution.kind # "None" /\ ~FloatLt(PyFloat(0), resolution)
        THEN "Resolution must be > 0 (degrees)."
        ELSE ""

\* f"{x:.2f}" of a bbox item as the caller gave it: a str has no format "f".
FormatBboxItem(a) == IF a.kind \in {"float", "int"} THEN Format2f(a.v) ELSE "ValueError"

\* The name of the output file of a grid query.
GridFilename(date_str, bbox, resolution) ==
    "nespreso_grid_" \o date_str.s
        \o (IF bbox.t # "None" /\ bbox.items # <<>>
            THEN "_bbox_" \o JoinStrings([i \in 1..4 |-> FormatBboxItem(bbox.items[i])], "_")
            ELSE "")
        \o (IF resolution.kind # "None" THEN "_res_" \o Format3f(resolution.v) ELSE "")
        \o ".nc"

\* What the grid service and the file system may do with one request.
GridEnvs ==
    [exc : {"Timeout", "RequestException", "Exception"}, status : {0}, size : {0},
     write : {"ok"}]
    \cup [exc : {"none"}, status : {400, 500}, size : {2}, write : {"ok"}]
    \cup [exc : {"none"}, status : {200}, size : {0, 2},
          write : {"ok", "open_fails", "write_fails"}]

\* query_grid.  Gives the dictionary returned, the POST issued (if any) and
\* the files afterwards.
QueryGrid(date_str, bbox, resolution, fs, env) ==
    LET invalid == GridValidationError(date_str, bbox, resolution)
        request == [url |-> "grid",
                    data |-> [date |-> date_str.s,
                              bbox |-> IF bbox.t = "None" THEN <<>>
                                       ELSE [i \in 1..4 |-> bbox.items[i].v],
                              resolution |-> IF resolution.kind = "None" THEN <<>>
                                             ELSE <<resolution.v>>]]
        output_path == GRID_OUTPUT_DIR \o "/" \o GridFilename(date_str, bbox, resolution)
        sent == [posted |-> <<request>>, files |-> fs]
    IN  IF invalid # ""
        THEN [ret |-> GridError(invalid), posted |-> <<>>, files |-> fs]
        ELSE IF env.exc = "Timeout"
        THEN [ret |-> GridError("Request timed out")] @@ sent
        ELSE IF env.exc # "none"
        THEN [ret |-> GridError(env.exc)] @@ sent
        ELSE IF env.status # 200
        THEN [ret |-> [t |-> "dict", keys |-> {"success", "status_code", "error"},
                       success |-> FALSE, error |-> "response.text", filename |-> "",
                       size_bytes |-> 0, status_code |-> env.status]] @@ sent
        ELSE IF bbox.t # "None" /\ \E i \in 1..4 : ~(bbox.items[i].kind \in {"float", "int"})
        THEN [ret |-> GridError("Unknown format code 'f' for object of type 'str'")] @@ sent
        ELSE IF env.write # "ok"
        THEN [ret |-> GridError("OSError"), posted |-> <<request>>,
              files |-> AfterWrite(fs, output_path, env.size, env.write)]
        ELSE [ret |-> [t |-> "dict",
                       keys |-> {"success", "filename", "size_bytes", "status_code"},
                       success |-> TRUE, error |-> "", filename |-> output_path,
                       size_bytes |-> env.size, status_code |-> env.status],
              posted |-> <<request>>,
              files |-> AfterWrite(fs, output_path, env.size, env.write)]

(***************************************************************************)
(* The inputs the host passes.                                             *)
(***************************************************************************)
LatOfLen(n) == Flat([i \in 1..n |-> PyFloat(10 + i)])
LonOfLen(n) == Flat([i \in 1..n |-> PyFloat(-(90 + i))])
DatesOfLen(n) == Flat([i \in 1..n |-> PyText("2024-03-" \o ZeroPad(i, 2))])

Points(lat, lon, date) == [lat |-> lat, lon |-> lon, date |-> date]

\* Flat inputs of every length, and inputs of the other shapes the
\* operations document: scalars, nested sequences, numeric and datetime
\* dates, text where a number is expected, inputs of different lengths.
PointInputs ==
    {Points(LatOfLen(n), LonOfLen(n), DatesOfLen(n)) : n \in 0..MaxPoints}
    \cup {Points(Scalar(PyFloat(25)), Scalar(PyFloat(-90)), Scalar(PyText("2024-03-01"))),
          Points(LatOfLen(2), Scalar(PyFloat(-90)), DatesOfLen(2)),
          Points(LatOfLen(2), LonOfLen(2), Scalar(PyText("2024-03-01"))),
          Points(LatOfLen(2), LonOfLen(1), DatesOfLen(1)),
          Points(Flat(<<PyText("north")>>), LonOfLen(1), DatesOfLen(1)),
          Points(LatOfLen(1), LonOfLen(1), Flat(<<PyInt(739000)>>)),
          Points(LatOfLen(1), LonOfLen(1), Scalar(PyDatetime(738945))),
          Points(Nested(<<<<PyFloat(11), PyFloat(12)>>, <<PyFloat(13), PyFloat(14)>>>>),
                 Nested(<<<<PyFloat(-91), PyFloat(-92)>>, <<PyFloat(-93), PyFloat(-94)>>>>),
                 Nested(<<<<PyInt(739000), PyInt(739001)>>, <<PyInt(739002), PyInt(739003)>>>>))}

ApiUrls == {PyNone, PyText("http://host/predict")}

\* Day counts: 0 and 365 (before 0001-01-01), 366 (0001-01-01), 367, 365242
\* (0999-12-31), 365243 (1000-01-01), 739000 (2023-04-25), 3652424
\* (9999-12-31, datetime.max) and 3652425 (the day after it).
DatenumValues == {0, 365, 366, 367, 365242, 365243, 739000, 3652424, 3652425}

\* The date arguments of convert_date_to_iso_strings: a day count as an int
\* or a float, alone or in a sequence, and the dates of the point inputs.
DateInputs ==
    {Scalar(PyInt(v)) : v \in DatenumValues}
    \cup {Scalar(PyFloat(v)) : v \in DatenumValues}
    \cup {Flat(<<PyInt(v)>>) : v \in DatenumValues}
    \cup {Flat(<<PyFloat(739000), PyFloat(v)>>) : v \in DatenumValues}
    \cup {p.date : p \in PointInputs}

BboxNone == [t |-> "None", items |-> <<>>]
Bbox(t, a, b, c, d) == [t |-> t, items |-> <<a, b, c, d>>]

GridDates ==
    {PyText("2024-03-01"), PyText("2024-3-1"), PyText("2024-02-30"), PyText("2023-02-29"),
     PyText("2024-02-29"), PyText("03/01/2024"), PyText("2024-03-01T00"), PyNone}

GridBboxes ==
    {BboxNone,
     Bbox("list", PyFloat(-10000), PyFloat(1000), PyFloat(-9000), PyFloat(2000)),
     Bbox("tuple", PyInt(-10000), PyInt(1000), PyInt(-9000), PyInt(2000)),
     Bbox("list", PyFloat(-9750), PyFloat(1825), PyFloat(-8205), PyFloat(3100)),
     Bbox("list", PyNumStr("-100", -10000), PyNumStr("10", 1000), PyNumStr("-90", -9000),
          PyNumStr("20", 2000)),
     Bbox("list", PyFloat(-20000), PyFloat(1000), PyFloat(-9000), PyFloat(2000)),
     Bbox("list", PyFloat(-10000), PyFloat(1000), PyFloat(-9000), PyFloat(9001)),
     Bbox("list", PyFloat(-9000), PyFloat(1000), PyFloat(-10000), PyFloat(2000)),
     Bbox("list", PyFloat(-10000), PyFloat(1000), PyFloat(-9000), PyFloat(1000)),
     Bbox("list", PyFloat(-10000), PyNaN, PyFloat(-9000), PyFloat(2000)),
     Bbox("list", PyFloat(-10000), PyText("south"), PyFloat(-9000), PyFloat(2000)),
     Bbox("list", PyFloat(-20000), PyNone, PyFloat(-9000), PyFloat(2000)),
     Bbox("ndarray", PyFloat(-10000), PyFloat(1000), PyFloat(-9000), PyFloat(2000)),
     [t |-> "list", items |-> <<PyFloat(-10000), PyFloat(1000), PyFloat(-9000)>>],
     [t |-> "list", items |-> <<>>],
     [t |-> "list", items |-> <<PyFloat(-20000), PyText("south"), PyFloat(-9000),
                                PyFloat(2000), PyFloat(0)>>]}

GridResolutions ==
    {PyNone, PyFloat(250), PyInt(1000), PyNumStr("0.5", 500), PyFloat(0), PyFloat(-250),
     PyNaN, PyText("fine")}

(***************************************************************************)
(* The host's event loop.                                                  *)
(***************************************************************************)
\* The loop's thread takes the next ready task and runs it until the task
\* returns or awaits.  The host's other tasks run to their end; the task
\* that calls the library occupies the thread until the call has returned;
\* the coroutine bridged by run_coroutine_threadsafe runs fetch_predictions
\* and sets the future.
LoopStep ==
    /\ host = "loop"
    /\ loop_thread = "idle"
    /\ loop_ready # <<>>
    /\ loop_ready' = Tail(loop_ready)
    /\ IF Head(loop_ready) = "fetch"
       THEN \E env \in FetchEnvs :
              LET f == FetchPredictions(gp_args.lat, gp_args.lon, gp_args.date,
                                        gp_args.filename, gp_args.api_url, files, env)
              IN  /\ future' = [state |-> "done", result |-> f.ret]
                  /\ files' = f.files
                  /\ http_log' = http_log \o f.posted
                  /\ loop_thread' = "idle"
       ELSE /\ loop_thread' = IF Head(loop_ready) = "caller" THEN "caller" ELSE "idle"
            /\ UNCHANGED <<future, files, http_log>>
    /\ UNCHANGED <<host, warnings_error, call, result, gp_vars, b_vars, m_vars>>

\* The task that called the library ends once the call has returned.
CallerTaskEnds ==
    /\ host = "loop"
    /\ loop_thread = "caller"
    /\ result # NoResult
    /\ loop_thread' = "idle"
    /\ UNCHANGED <<host, warnings_error, loop_ready, future, call, result, files, http_log,
                   gp_vars, b_vars, m_vars>>

(***************************************************************************)
(* Operations that run in one step.                                        *)
(***************************************************************************)
\* preprocess_inputs(lat, lon, date)
CallPreprocessInputs ==
    /\ HostMayCall
    /\ \E p \in PointInputs :
          /\ call' = [op |-> "preprocess_inputs", lat |-> p.lat, lon |-> p.lon, date |-> p.date]
          /\ result' = PreprocessInputs(p.lat, p.lon, p.date)
    /\ UNCHANGED <<host, warnings_error, loop_vars, files, http_log, gp_vars, b_vars, m_vars>>

\* convert_date_to_iso_strings(date)
CallConvertDateToIsoStrings ==
    /\ HostMayCall
    /\ \E d \in DateInputs :
          /\ call' = [op |-> "convert_date_to_iso_strings", date |-> d]
          /\ result' = ConvertDateToIsoStrings(d)
    /\ UNCHANGED <<host, warnings_error, loop_vars, files, http_log, gp_vars, b_vars, m_vars>>

\* await fetch_predictions(lat, lon, date, filename, api_url)
CallFetchPredictions ==
    /\ HostMayCall
    /\ \E n \in 0..1, filename \in {"output.nc"}, api_url \in ApiUrls, env \in FetchEnvs :
          LET lat == ToFloatList(LatOfLen(n))
              lon == ToFloatList(LonOfLen(n))
              date == ConvertDateToIsoStrings(DatesOfLen(n))
              f == FetchPredictions(lat, lon, date, filename, api_url, files, env)
          IN  /\ call' = [op |-> "fetch_predictions", filename |-> filename,
                          api_url |-> api_url, env |-> env]
              /\ result' = f.ret
              /\ files' = f.files
              /\ http_log' = http_log \o f.posted
    /\ UNCHANGED <<host, warnings_error, loop_vars, gp_vars, b_vars, m_vars>>

\* query_grid(date_str, bbox, resolution)
CallQueryGrid ==
    /\ HostMayCall
    /\ \E date_str \in GridDates, bbox \in GridBboxes, resolution \in GridResolutions,
          env \in GridEnvs :
          LET q == QueryGrid(date_str, bbox, resolution, files, env)
          IN  /\ call' = [op |-> "query_grid", date_str |-> date_str, bbox |-> bbox,
                          resolution |-> resolution, env |-> env]
              /\ result' = q.ret
              /\ files' = q.files
              /\ http_log' = http_log \o q.posted
    /\ UNCHANGED <<host, warnings_error, loop_vars, gp_vars, b_vars, m_vars>>

(***************************************************************************)
(* profile.py: get_predictions.                                            *)
(***************************************************************************)
\* get_predictions(lat, lon, date, filename, api_url) is called by the host.
CallGetPredictions ==
    /\ HostMayCall
    /\ \E p \in PointInputs, api_url \in ApiUrls :
          LET args == [lat |-> p.lat, lon |-> p.lon, date |-> p.date,
                       filename |-> "output.nc", api_url |-> api_url]
          IN  /\ call' = [op |-> "get_predictions"] @@ args
              /\ gp_pc' = "called"
              /\ gp_caller' = "host"
              /\ gp_args' = args
              /\ gp_log' = Append(gp_log, args)
    /\ UNCHANGED <<host, warnings_error, loop_vars, result, files, http_log, gp_result,
                   b_vars, m_vars>>

\* Lines 84-97: preprocess the inputs, print their number, look for a running
\* loop; with one, schedule the fetch on it, else go on to asyncio.run.
GetPredictionsEnter ==
    /\ gp_pc = "called"
    /\ LET pre == PreprocessInputs(gp_args.lat, gp_args.lon, gp_args.date)
       IN  IF pre.t = "raise"
           THEN /\ gp_result' = pre
                /\ gp_pc' = "done"
                /\ UNCHANGED <<gp_args, loop_ready, future>>
           ELSE IF pre.lat.t # "list"
           THEN /\ gp_result' = Raise("TypeError")        \* len() of a float
                /\ gp_pc' = "done"
                /\ UNCHANGED <<gp_args, loop_ready, future>>
           ELSE /\ gp_args' = [gp_args EXCEPT !.lat = pre.lat, !.lon = pre.lon,
                                              !.date = pre.date]
                /\ gp_result' = gp_result
                /\ IF host = "loop"
                   THEN /\ loop_ready' = Append(loop_ready, "fetch")
                        /\ future' = [state |-> "pending"]
                        /\ gp_pc' = "result"
                   ELSE /\ gp_pc' = "run"
                        /\ UNCHANGED <<loop_ready, future>>
    /\ UNCHANGED <<host, warnings_error, loop_thread, call, result, files, http_log,
                   gp_caller, gp_log, b_vars, m_vars>>

\* Line 100, asyncio.run(fetch_predictions(...)) on a fresh loop, or the end
\* of line 97, Future.result(), which waits until the future is done.
GetPredictionsComplete ==
    /\ gp_pc = "run" \/ (gp_pc = "result" /\ future.state = "done")
    /\ \E env \in FetchEnvs :
          LET f == FetchPredictions(gp_args.lat, gp_args.lon, gp_args.date,
                                    gp_args.filename, gp_args.api_url, files, env)
          IN  IF gp_pc = "run"
              THEN /\ gp_result' = f.ret
                   /\ files' = f.files
                   /\ http_log' = http_log \o f.posted
              ELSE /\ gp_result' = future.result
                   /\ UNCHANGED <<files, http_log>>
    /\ gp_pc' = "done"
    /\ UNCHANGED <<host, warnings_error, loop_vars, call, result, gp_caller, gp_args,
                   gp_log, b_vars, m_vars>>

\* get_predictions hands its value, or its exception, to the host.
GetPredictionsReturns ==
    /\ gp_pc = "done"
    /\ gp_caller = "host"
    /\ result' = gp_result
    /\ gp_pc' = "idle"
    /\ UNCHANGED <<host, warnings_error, loop_vars, call, files, http_log, gp_caller,
                   gp_args, gp_result, gp_log, b_vars, m_vars>>

(***************************************************************************)
(* profile.py: get_predictions_batch.                                      *)
(***************************************************************************)
Min(a, b) == IF a < b THEN a ELSE b

\* seq[start:end] of a Python list.
Slice(seq, start, end) ==
    IF start >= Min(end, Len(seq)) THEN <<>> ELSE SubSeq(seq, start + 1, Min(end, Len(seq)))

\* A Python list of floats, or of strs, as the array-like it is.
FloatsAsInput(items) == Flat([i \in 1..Len(items) |-> PyFloat(items[i])])
StrsAsInput(items) == Flat([i \in 1..Len(items) |-> PyText(items[i])])

\* Whether range(0, total_points, batch_size) still holds start_index.
InRange_DropsPartial(i, total_points, batch_size) ==
    batch_size > 0 /\ i + batch_size <= total_points

InRange(i, total_points, batch_size) == batch_size > 0 /\ i < total_points

\* f"{filename_prefix}_batch_{start_index // batch_size + 1:03d}.nc"
BatchFilename(prefix, i, batch_size) ==
    prefix \o "_batch_" \o ZeroPad(i \div batch_size + 1, 3) \o ".nc"

\* Lines 115-119 and the first evaluation of range(): the host calls
\* get_predictions_batch.
CallGetPredictionsBatch ==
    /\ HostMayCall
    /\ \E p \in PointInputs, batch_size \in (-1)..MaxBatchSize, merge_output \in BOOLEAN,
          api_url \in ApiUrls :
          LET pre == PreprocessInputs(p.lat, p.lon, p.date)
              fails == IF pre.t = "raise" THEN pre
                       ELSE IF pre.lat.t # "list" THEN Raise("TypeError")  \* len() of a float
                       ELSE IF batch_size = 0 THEN Raise("ValueError")     \* range() step 0
                       ELSE NoResult
          IN  /\ call' = [op |-> "get_predictions_batch", lat |-> p.lat, lon |-> p.lon,
                          date |-> p.date, batch_size |-> batch_size,
                          filename_prefix |-> "output", api_url |-> api_url,
                          merge_output |-> merge_output]
              /\ result' = fails
              /\ b_pc' = IF fails = NoResult THEN "loop" ELSE "done"
              /\ b_points' = IF fails = NoResult THEN pre ELSE b_points
    /\ start_index' = 0
    /\ successful_files' = <<>>
    /\ batch_log' = <<>>
    /\ UNCHANGED <<host, warnings_error, loop_vars, files, http_log, gp_vars, m_vars>>

\* Lines 122-137: the loop takes the next start_index, slices the three
\* lists, names the batch file and calls get_predictions.
BatchNext ==
    /\ b_pc = "loop"
    /\ InRange(start_index, Len(b_points.lat.items), call.batch_size)
    /\ LET end_index == Min(start_index + call.batch_size, Len(b_points.lat.items))
       IN  IF b_points.lon.t # "list"
           THEN /\ result' = Raise("TypeError")          \* a float has no slice
                /\ b_pc' = "done"
                /\ UNCHANGED gp_vars
           ELSE LET args == [lat |-> FloatsAsInput(Slice(b_points.lat.items, start_index, end_index)),
                             lon |-> FloatsAsInput(Slice(b_points.lon.items, start_index, end_index)),
                             date |-> StrsAsInput(Slice(b_points.date.items, start_index, end_index)),
                             filename |-> BatchFilename(call.filename_prefix, start_index,
                                                        call.batch_size),
                             api_url |-> call.api_url]
                IN  /\ gp_pc' = "called"
                    /\ gp_caller' = "batch"
                    /\ gp_args' = args
                    /\ gp_log' = Append(gp_log, args)
                    /\ gp_result' = NoResult
                    /\ b_pc' = "call"
                    /\ result' = result
    /\ UNCHANGED <<host, warnings_error, loop_vars, call, files, http_log, b_points,
                   start_index, successful_files, batch_log, m_vars>>

\* Lines 134-146: where get_predictions_batch goes on after a batch whose
\* call returned or raised outcome: the except clause only prints.
AfterBatch_ErrorAborts(outcome) == IF outcome.t = "raise" THEN "done" ELSE "loop"

AfterBatch(outcome) == "loop"

\* Lines 138-146: what get_predictions returned or raised is recorded, and the
\* loop goes on.
BatchRecord ==
    /\ b_pc = "call"
    /\ gp_pc = "done"
    /\ IF gp_result.t = "raise"
       THEN /\ batch_log' = Append(batch_log, "error")
            /\ successful_files' = successful_files
       ELSE IF Truthy(gp_result)
       THEN /\ batch_log' = Append(batch_log, "ok")
            /\ successful_files' = Append(successful_files, gp_result.s)
       ELSE /\ batch_log' = Append(batch_log, "failed")
            /\ successful_files' = successful_files
    /\ start_index' = start_index + call.batch_size
    /\ b_pc' = AfterBatch(gp_result)
    /\ gp_pc' = "idle"
    /\ UNCHANGED <<host, warnings_error, loop_vars, call, result, files, http_log,
                   gp_caller, gp_args, gp_result, gp_log, b_points, m_vars>>

\* Line 153: the batch files are merged.
MergeWanted_OneSuffices(merge_output, successes) == merge_output /\ Len(successes) >= 1

MergeWanted(merge_output, successes) == merge_output /\ Len(successes) > 1

\* Lines 148-174 up to the call of merge_netcdf_files: the loop is over.
BatchFinish ==
    /\ b_pc = "loop"
    /\ ~InRange(start_index, Len(b_points.lat.items), call.batch_size)
    /\ IF MergeWanted(call.merge_output, successful_files)
       THEN /\ m_pc' = "called"
            /\ m_caller' = "batch"
            /\ m_args' = [file_list |-> successful_files,
                          output_filename |-> IF EndsWith(call.filename_prefix, ".nc")
                                              THEN call.filename_prefix
                                              ELSE call.filename_prefix \o ".nc"]
            /\ m_log' = Append(m_log, successful_files)
            /\ b_pc' = "merge"
            /\ result' = result
       ELSE /\ result' = IF Len(successful_files) = 1 THEN RetStr(successful_files[1])
                         ELSE RetList(successful_files)
            /\ b_pc' = "done"
            /\ UNCHANGED <<m_pc, m_caller, m_args, m_log>>
    /\ UNCHANGED <<host, warnings_error, loop_vars, call, files, http_log, gp_vars,
                   b_points, start_index, successful_files, batch_log, datasets, open_log,
                   m_result>>

\* Lines 163-168: merge_netcdf_files has returned.
BatchAfterMerge ==
    /\ b_pc = "merge"
    /\ m_pc = "done"
    /\ result' = IF Truthy(m_result) THEN m_result ELSE RetList(successful_files)
    /\ b_pc' = "done"
    /\ m_pc' = "idle"
    /\ UNCHANGED <<host, warnings_error, loop_vars, call, files, http_log, gp_vars,
                   b_points, start_index, successful_files, batch_log, m_caller, m_args,
                   datasets, open_log, m_log, m_result>>

(***************************************************************************)
(* profile.py: merge_netcdf_files.                                         *)
(***************************************************************************)
MergeFileLists ==
    UNION {[1..n -> {"a.nc", "b.nc"}] : n \in 0..MaxMergeFiles}

\* merge_netcdf_files(file_list, output_filename) is called by the host.
CallMergeNetcdfFiles ==
    /\ HostMayCall
    /\ \E file_list \in MergeFileLists :
          LET args == [file_list |-> file_list, output_filename |-> "merged.nc"]
          IN  /\ call' = [op |-> "merge_netcdf_files"] @@ args
              /\ m_args' = args
              /\ m_log' = Append(m_log, file_list)
    /\ m_pc' = "called"
    /\ m_caller' = "host"
    /\ UNCHANGED <<host, warnings_error, loop_vars, result, files, http_log, gp_vars,
                   b_vars, datasets, open_log, m_result>>

\* Lines 182-196: the lazy import, the empty list, datasets = [].
MergeEnter ==
    /\ m_pc = "called"
    /\ \E import_ok \in BOOLEAN :
          IF ~import_ok \/ m_args.file_list = <<>>
          THEN m_pc' = "done" /\ m_result' = RetNone
          ELSE m_pc' = "open" /\ m_result' = NoResult
    /\ datasets' = <<>>
    /\ open_log' = <<>>
    /\ UNCHANGED <<host, warnings_error, loop_vars, call, result, files, http_log, gp_vars,
                   b_vars, m_caller, m_args, m_log>>

\* Lines 198-201: one turn of the loop that opens the files; an exception of
\* xr.open_dataset leaves the loop for the except clause.
MergeOpen ==
    /\ m_pc = "open"
    /\ Len(datasets) < Len(m_args.file_list)
    /\ open_log' = Append(open_log, m_args.file_list[Len(datasets) + 1])
    /\ \E opened \in BOOLEAN :
          IF opened
          THEN datasets' = Append(datasets, "open") /\ UNCHANGED <<m_pc, m_result>>
          ELSE datasets' = datasets /\ m_pc' = "finally" /\ m_result' = RetNone
    /\ UNCHANGED <<host, warnings_error, loop_vars, call, result, files, http_log, gp_vars,
                   b_vars, m_caller, m_args, m_log>>

\* Lines 204-222: concatenate, renumber, stamp the attributes, write; the
\* value to return is the output file name, or None after an exception.
MergeWrite ==
    /\ m_pc = "open"
    /\ Len(datasets) = Len(m_args.file_list)
    /\ \E fails \in {"none", "concat", "assign_coords", "to_netcdf"} :
          /\ m_result' = IF fails = "none" THEN RetStr(m_args.output_filename) ELSE RetNone
          /\ \E written \in BOOLEAN :
                /\ fails = "none" => written
                /\ fails \in {"concat", "assign_coords"} => ~written
                /\ files' = IF written
                            THEN WriteFile(files, m_args.output_filename, Len(datasets))
                            ELSE files
    /\ m_pc' = "finally"
    /\ UNCHANGED <<host, warnings_error, loop_vars, call, result, http_log, gp_vars,
                   b_vars, m_caller, m_args, datasets, open_log, m_log>>

\* Lines 223-229: one turn of the loop of the finally clause; an exception of
\* close() is swallowed.
MergeClose ==
    /\ m_pc = "finally"
    /\ \E i \in 1..Len(datasets) :
          /\ datasets[i] = "open"
          /\ \A j \in 1..(i - 1) : datasets[j] = "closed"
          /\ datasets' = [datasets EXCEPT ![i] = "closed"]
    /\ UNCHANGED <<host, warnings_error, loop_vars, call, result, files, http_log, gp_vars,
                   b_vars, m_pc, m_caller, m_args, open_log, m_log, m_result>>

\* The finally clause is over: merge_netcdf_files returns.
MergeReturn_ClosesOnSuccessOnly ==
    /\ m_pc = "finally"
    /\ m_result = RetNone \/ \A i \in 1..Len(datasets) : datasets[i] = "closed"
    /\ m_pc' = "done"
    /\ UNCHANGED <<host, warnings_error, loop_vars, call, result, files, http_log, gp_vars,
                   b_vars, m_caller, m_args, datasets, open_log, m_log, m_result>>

MergeReturn ==
    /\ m_pc = "finally"
    /\ \A i \in 1..Len(datasets) : datasets[i] = "closed"
    /\ m_pc' = "done"
    /\ UNCHANGED <<host, warnings_error, loop_vars, call, result, files, http_log, gp_vars,
                   b_vars, m_caller, m_args, datasets, open_log, m_log, m_result>>

\* merge_netcdf_files hands its value to the host.
MergeReturnsToHost ==
    /\ m_pc = "done"
    /\ m_caller = "host"
    /\ result' = m_result
    /\ m_pc' = "idle"
    /\ UNCHANGED <<host, warnings_error, loop_vars, call, files, http_log, gp_vars, b_vars,
                   m_caller, m_args, datasets, open_log, m_log, m_result>>

(***************************************************************************)
(* The specification.                                                      *)
(***************************************************************************)
Next ==
    \/ LoopStep
    \/ CallerTaskEnds
    \/ CallPreprocessInputs
    \/ CallConvertDateToIsoStrings
    \/ CallFetchPredictions
    \/ CallQueryGrid
    \/ CallGetPredictions
    \/ GetPredictionsEnter
    \/ GetPredictionsComplete
    \/ GetPredictionsReturns
    \/ CallGetPredictionsBatch
    \/ BatchNext
    \/ BatchRecord
    \/ BatchFinish
    \/ BatchAfterMerge
    \/ CallMergeNetcdfFiles
    \/ MergeEnter
    \/ MergeOpen
    \/ MergeWrite
    \/ MergeClose
    \/ MergeReturn
    \/ MergeReturnsToHost

Spec == Init /\ [][Next]_vars

\* The interpreter keeps running whatever can run.
FairSpec == Spec /\ WF_vars(Next)

(***************************************************************************)
(* Properties of get_predictions_batch.                                    *)
(***************************************************************************)
InBatchCall == call.op = "get_predictions_batch" /\ b_pc # "idle" /\ b_points # NoResult

\* The loop over the batches is over and get_predictions_batch did not raise.
BatchLoopOver == InBatchCall /\ b_pc \in {"merge", "done"} /\ result.t # "raise"

\* The file of batch k, for k < 10.
BatchFileOf(k) == "output_batch_00" \o ToString(k) \o ".nc"

\* The files of the batches a log records as successful, in batch order.
OkBatchFiles(log) ==
    LET F[k \in 0..Len(log)] ==
            IF k = 0 THEN <<>>
            ELSE F[k - 1] \o (IF log[k] = "ok" THEN <<BatchFileOf(k)>> ELSE <<>>)
    IN  F[Len(log)]

\* The least q with q * b >= n.
CeilDiv(n, b) == CHOOSE q \in 0..n : q * b >= n /\ (q = 0 \/ (q - 1) * b < n)

\* C1: successful_files lists the successful batches in increasing batch
\* order, and once every batch has been attempted the value returned is: with
\* merge_output and at least two successes, the merged file if the one call
\* of merge_netcdf_files on successful_files succeeded and the list otherwise;
\* with one success, that path itself; else the list, and nothing is merged.
C1_BatchReturnValue ==
    call.op = "get_predictions_batch" =>
        /\ successful_files = OkBatchFiles(batch_log)
        /\ (b_pc = "done" /\ result.t # "raise") =>
              IF call.merge_output /\ Len(successful_files) >= 2
              THEN /\ m_log = <<successful_files>>
                   /\ m_result \in {RetNone, RetStr("output.nc")}
                   /\ result = IF m_result = RetStr("output.nc") THEN RetStr("output.nc")
                               ELSE RetList(successful_files)
              ELSE /\ m_log = <<>>
                   /\ result = IF Len(successful_files) = 1 THEN RetStr(successful_files[1])
                               ELSE RetList(successful_files)

\* Three batches, the second of which failed, were merged from the files of
\* batches 1 and 3, in that order.
C1_Witness ==
    /\ call.op = "get_predictions_batch"
    /\ b_pc = "done"
    /\ call.merge_output
    /\ batch_log = <<"ok", "failed", "ok">>
    /\ m_log = <<(<<"output_batch_001.nc", "output_batch_003.nc">>)>>
    /\ result = RetStr("output.nc")

\* The items of seq at the 0-based indices lo .. hi - 1 that seq has.
IndexRange(seq, lo, hi) ==
    LET top == IF hi < Len(seq) THEN hi ELSE Len(seq)
    IN  [i \in 1..(IF top > lo THEN top - lo ELSE 0) |-> seq[lo + i]]

\* The values of a list handed to get_predictions.
ValuesOf(input) == [i \in 1..Len(input.rows[1]) |-> input.rows[1][i].v]
TextsOf(input) == [i \in 1..Len(input.rows[1]) |-> input.rows[1][i].s]

\* C2: with batch_size B >= 1 and N points, batch k holds the indices
\* (k-1)*B .. min(k*B, N) - 1 of the latitudes, and the same index range of
\* the longitudes and dates; it has at most B points and only the last batch
\* has fewer; there are ceil(N/B) batches and the batches, in order, make up
\* the latitudes, each index once.
C2_BatchRanges ==
    (InBatchCall /\ call.batch_size >= 1) =>
        LET N == Len(b_points.lat.items)
            B == call.batch_size
            Lo(k) == (k - 1) * B
            Hi(k) == IF k * B < N THEN k * B ELSE N
        IN  /\ \A k \in 1..Len(gp_log) :
                  /\ ValuesOf(gp_log[k].lat) = IndexRange(b_points.lat.items, Lo(k), Hi(k))
                  /\ ValuesOf(gp_log[k].lon) = IndexRange(b_points.lon.items, Lo(k), Hi(k))
                  /\ TextsOf(gp_log[k].date) = IndexRange(b_points.date.items, Lo(k), Hi(k))
                  /\ Len(ValuesOf(gp_log[k].lat)) \in 1..B
                  /\ Len(ValuesOf(gp_log[k].lat)) < B => k = CeilDiv(N, B)
            /\ BatchLoopOver =>
                  /\ Len(gp_log) = CeilDiv(N, B)
                  /\ Flatten([k \in 1..Len(gp_log) |-> ValuesOf(gp_log[k].lat)])
                        = b_points.lat.items

\* Three points in batches of two: two batches, the last one smaller.
C2_Witness ==
    /\ BatchLoopOver
    /\ call.batch_size = 2
    /\ Len(b_points.lat.items) = 3
    /\ Len(gp_log) = 2
    /\ ValuesOf(gp_log[2].lat) = <<13>>

\* What holds of the attempts of a call of get_predictions_batch in every
\* state: the k-th call of get_predictions is for batch k, at most the last
\* attempt has no recorded outcome yet and that one is in progress, no
\* attempt issues more than one request, and when the loop is over every
\* batch has one attempt and one outcome, a success or a failure.
C3_Attempts ==
    (InBatchCall /\ call.batch_size >= 1) =>
        /\ \A k \in 1..Len(gp_log) : gp_log[k].filename = BatchFileOf(k)
        /\ Len(batch_log) <= Len(gp_log)
        /\ Len(gp_log) <= Len(batch_log) + 1
        /\ Len(batch_log) < Len(gp_log) <=> gp_pc # "idle"
        /\ Len(http_log) <= Len(gp_log)
        /\ b_pc \in {"merge", "done"} /\ result.t # "raise" =>
              /\ Len(gp_log) = CeilDiv(Len(b_points.lat.items), call.batch_size)
              /\ Len(batch_log) = Len(gp_log)
              /\ Len(successful_files)
                    + Cardinality({k \in 1..Len(batch_log) : batch_log[k] \in {"failed", "error"}})
                 = Len(gp_log)

\* A batch is attempted only when every earlier attempt has ended and its
\* outcome is recorded.
C3_OneAtATime ==
    (call.op = "get_predictions_batch" /\ gp_log' # gp_log) =>
        (gp_pc = "idle" /\ Len(batch_log) = Len(gp_log))

C3_WitnessFailedThenOk ==
    /\ BatchLoopOver
    /\ batch_log = <<"failed", "ok", "ok">>

(***************************************************************************)
(* Properties of fetch_predictions.                                        *)
(***************************************************************************)
\* The POST completed, with status 200 and a content type that starts with
\* application/x-netcdf, and the body was written.
FetchSucceeds(env) ==
    /\ ~env.exc
    /\ env.status = 200
    /\ env.has_ct
    /\ Len(env.ct) >= 20
    /\ SubSeq(env.ct, 1, 20) = "application/x-netcdf"
    /\ env.write = "ok"

\* The call went past the deprecation warning to the request.
FetchRequested ==
    /\ call.op = "fetch_predictions"
    /\ ~(warnings_error /\ call.api_url = PyText("http://host/predict"))

\* C4: fetch_predictions returns the file name exactly when the POST
\* completed with status 200 and a NetCDF content type and the body was
\* written; after a transport exception, another status, another or no
\* content type or a failed write it returns None, never raises, and unless
\* the write failed no file was written.
C4_FetchOutcome ==
    FetchRequested =>
        /\ Len(http_log) = 1
        /\ result \in {RetNone, RetStr(call.filename)}
        /\ result = RetStr(call.filename) <=> FetchSucceeds(call.env)
        /\ result = RetStr(call.filename) =>
              files = {[path |-> call.filename, size |-> call.env.size]}
        /\ (~FetchSucceeds(call.env) /\ result = RetNone /\ files # {}) =>
              (~call.env.exc /\ call.env.status = 200 /\ call.env.write # "ok")

\* Status 200 with a JSON content type: None, and no file.
C4_Witness ==
    /\ FetchRequested
    /\ ~call.env.exc
    /\ call.env.status = 200
    /\ call.env.ct = "application/json"
    /\ result = RetNone
    /\ files = {}

(***************************************************************************)
(* Properties of query_grid.                                               *)
(***************************************************************************)
\* The message of the first rule, in the order date, bbox shape, bbox
\* numeric, bbox range, bbox order, resolution, that the arguments violate;
\* "" when they violate none.  shaped says which containers the shape rule
\* takes for a bbox of four values.
FirstViolation(date_str, bbox, resolution, shaped) ==
    LET given == bbox.t # "None"
        b == bbox.items
        four == Len(b) = 4 /\ bbox.t \in shaped
        numeric == four /\ \A i \in 1..4 : b[i].num
        Within(a, limit) == a.kind # "nan" /\ a.v >= -limit /\ a.v <= limit
        inside == numeric /\ Within(b[1], 18000) /\ Within(b[3], 18000)
                          /\ Within(b[2], 9000) /\ Within(b[4], 9000)
        ordered == inside /\ b[1].v < b[3].v /\ b[2].v < b[4].v
        has_res == resolution.kind # "None"
        rules == <<
            [bad |-> ~(date_str.kind = "str" /\ StrptimeYmdOk(date_str.s)),
             msg |-> "Invalid date. Use YYYY-MM-DD."],
            [bad |-> given /\ ~four,
             msg |-> "Invalid bbox. Use [lon_min, lat_min, lon_max, lat_max]."],
            [bad |-> given /\ four /\ ~numeric,
             msg |-> "Invalid bbox values. Must be numeric [lon_min, lat_min, lon_max, lat_max]."],
            [bad |-> given /\ numeric /\ ~inside,
             msg |-> "BBOX out of range. Lon in [-180,180], Lat in [-90,90]."],
            [bad |-> given /\ inside /\ ~ordered,
             msg |-> "BBOX order invalid. Require lon_min < lon_max and lat_min < lat_max."],
            [bad |-> has_res /\ ~resolution.num,
             msg |-> "Resolution must be a positive number (degrees)."],
            [bad |-> has_res /\ resolution.num /\ ~(resolution.kind # "nan" /\ resolution.v > 0),
             msg |-> "Resolution must be > 0 (degrees)."] >>
        violated == {i \in 1..Len(rules) : rules[i].bad}
    IN  IF violated = {} THEN ""
        ELSE rules[CHOOSE i \in violated : \A j \in violated : i <= j].msg

ExampleBbox(lon_min, lat_min, lon_max, lat_max) ==
    Bbox("list", PyFloat(lon_min), PyFloat(lat_min), PyFloat(lon_max), PyFloat(lat_max))

\* What C5 says of a call of query_grid, with the shape rule as given.
GridValidationHolds(shaped) ==
    call.op = "query_grid" =>
        LET violation == FirstViolation(call.date_str, call.bbox, call.resolution, shaped)
            plain == call.date_str = PyText("2024-03-01") /\ call.resolution = PyNone
        IN  /\ violation # "" =>
                  /\ http_log = <<>>
                  /\ result.success = FALSE
                  /\ result.error = violation
                  /\ result.keys = {"success", "error"}
            /\ http_log # <<>> => violation = "" /\ Len(http_log) = 1
            /\ (plain /\ call.bbox = ExampleBbox(-10000, 1000, -9000, 2000)) =>
                  Len(http_log) = 1
            /\ (plain /\ call.bbox = ExampleBbox(-20000, 1000, -9000, 2000)) =>
                  result.error = "BBOX out of range. Lon in [-180,180], Lat in [-90,90]."
            /\ (plain /\ call.bbox = ExampleBbox(-9000, 1000, -10000, 2000)) =>
                  result.error
                     = "BBOX order invalid. Require lon_min < lon_max and lat_min < lat_max."

\* C5 as stated: when the date, the bbox or the resolution violates a rule,
\* query_grid issues no request and returns success = false with the message
\* of the first rule violated, the shape rule being that a bbox has exactly
\* four values; a request is issued only when no rule is violated.
\* [-100,10,-90,20] passes, [-200,10,-90,20] is out of range,
\* [-90,10,-100,20] is wrongly ordered.
C5_GridValidation_AnyFourValues == GridValidationHolds({"list", "tuple", "ndarray"})

\* C5, amended: the same, the shape rule being that a bbox is a list or a
\* tuple of exactly four values.
C5_GridValidation == GridValidationHolds({"list", "tuple"})

\* A bbox whose first longitude is -200 was refused as out of range, without
\* a request.
C5_Witness ==
    /\ call.op = "query_grid"
    /\ call.date_str = PyText("2024-03-01")
    /\ call.bbox = ExampleBbox(-20000, 1000, -9000, 2000)
    /\ result.success = FALSE
    /\ result.error = "BBOX out of range. Lon in [-180,180], Lat in [-90,90]."
    /\ http_log = <<>>

\* C10: when the arguments pass the validation, the service answers 200 and
\* the file system takes the file, query_grid writes the body to
\* uses/grid/nespreso_grid_{date}[_bbox_{a}_{b}_{c}_{d}][_res_{r}].nc, the
\* bbox part being there exactly when a bbox was given, with its four numbers
\* to two decimals, the resolution part exactly when a resolution was given,
\* to three decimals, and returns success = true with that path and the
\* length of the body.
C10_GridWritesFile ==
    (/\ call.op = "query_grid"
     /\ GridValidationError(call.date_str, call.bbox, call.resolution) = ""
     /\ call.env.exc = "none"
     /\ call.env.status = 200
     /\ call.env.write = "ok") =>
        LET b == call.bbox.items
            name == "nespreso_grid_" \o call.date_str.s
                      \o (IF call.bbox.t = "None" THEN ""
                          ELSE "_bbox_" \o Format2f(b[1].v) \o "_" \o Format2f(b[2].v)
                                  \o "_" \o Format2f(b[3].v) \o "_" \o Format2f(b[4].v))
                      \o (IF call.resolution.kind = "None" THEN ""
                          ELSE "_res_" \o Format3f(call.resolution.v))
                      \o ".nc"
        IN  /\ result.success = TRUE
            /\ result.filename = "uses/grid/" \o name
            /\ result.size_bytes = call.env.size
            /\ [path |-> "uses/grid/" \o name, size |-> call.env.size] \in files
            /\ (call.date_str = PyText("2024-03-01") /\ call.bbox.t = "None"
                    /\ call.resolution.kind = "None") =>
                  result.filename = "uses/grid/nespreso_grid_2024-03-01.nc"

(***************************************************************************)
(* Properties of get_predictions and of the operations together.           *)
(***************************************************************************)
\* C6: a call of get_predictions returns, also when it is made where a loop
\* is running.
C6_GetPredictionsReturns == (call.op = "get_predictions") ~> (result # NoResult)

\* C7, for the two operations whose handling of scalar inputs, of values that
\* are not numbers and of a batch_size of 0 it names: the operation does not
\* raise to the host.
C7_NeverRaises ==
    call.op \in {"get_predictions", "get_predictions_batch"} => result.t # "raise"

\* C8: preprocess_inputs returns three lists of the same length.
C8_NormalisedLists ==
    (call.op = "preprocess_inputs" /\ result # NoResult) =>
        /\ result.t = "tuple"
        /\ result.lat.t = "list"
        /\ result.lon.t = "list"
        /\ result.date.t = "list"
        /\ Len(result.lat.items) = Len(result.lon.items)
        /\ Len(result.lon.items) = Len(result.date.items)

(***************************************************************************)
(* Properties of merge_netcdf_files.                                       *)
(***************************************************************************)
MergeReturned == m_log # <<>> /\ m_pc \in {"done", "idle"}

\* C9: the files are opened in the order of file_list; when
\* merge_netcdf_files has returned, every handle it opened is closed and its
\* value is the output file name, with every file opened and the output
\* written, or None; an empty file_list gives None and nothing is opened; the
\* caller sees no exception.
C9_MergeReleasesHandles ==
    m_log # <<>> =>
        /\ Len(open_log) <= Len(m_args.file_list)
        /\ open_log = SubSeq(m_args.file_list, 1, Len(open_log))
        /\ Len(datasets) <= Len(open_log)
        /\ MergeReturned =>
              /\ \A i \in 1..Len(datasets) : datasets[i] = "closed"
              /\ m_result \in {RetNone, RetStr(m_args.output_filename)}
              /\ Len(datasets) < Len(m_args.file_list) => m_result = RetNone
              /\ m_result = RetStr(m_args.output_filename) =>
                    \E f \in files : f.path = m_args.output_filename
              /\ m_args.file_list = <<>> => (m_result = RetNone /\ open_log = <<>>)
              /\ result.t # "raise"

\* The second of two files could not be opened: the handle of the first is
\* closed and None is returned.
C9_Witness ==
    /\ call.op = "merge_netcdf_files"
    /\ result = RetNone
    /\ Len(m_args.file_list) = 2
    /\ Len(open_log) = 2
    /\ datasets = <<"closed">>

(***************************************************************************)
(* Properties of convert_date_to_iso_strings.                              *)
(***************************************************************************)
\* YYYY-MM-DD of the date n days after 0001-01-01 (before it when n < 0, in
\* the proleptic calendar): a year of four digits, a month and a day of two.
IsoDate(n) ==
    LET ymd == YmdOfOffset(n) IN
    ZeroPad(ymd.y, 4) \o "-" \o ZeroPad(ymd.m, 2) \o "-" \o ZeroPad(ymd.d, 2)

\* The argument is a number or a flat sequence of numbers.
NumericDates(date) ==
    /\ date.ndim <= 1
    /\ \A i \in 1..Len(date.rows[1]) : date.rows[1][i].kind \in {"float", "int"}

\* C11: convert_date_to_iso_strings turns every day count v, alone or in a
\* flat sequence, into the date 0001-01-01 + (v - 366) days written as
\* YYYY-MM-DD.
C11_DatenumDecoding ==
    (call.op = "convert_date_to_iso_strings" /\ NumericDates(call.date)) =>
        LET items == call.date.rows[1] IN
        /\ result.t = "list"
        /\ Len(result.items) = Len(items)
        /\ \A i \in 1..Len(items) : result.items[i] = IsoDate(items[i].v - 366)

====
